---- MODULE Spec2Model ----
(***************************************************************************)
(* A model of editorjs-toggle-block (src/src/index.js): the toggle        *)
(* hierarchy and ordering engine over the host editor's flat sequence of  *)
(* blocks.                                                                  *)
(*                                                                          *)
(* Positions are 0-based as in the source: the block at position i is      *)
(* blocks[i + 1].  A rootId (wrapper.id, data.fk) is a positive number and  *)
(* NoFk stands for an absent foreignKey attribute.                          *)
(***************************************************************************)
EXTENDS Integers, Sequences, FiniteSets, TLC

VARIABLES
  blocks,    \* the host's block sequence: holder attributes of every block
  cur,       \* the host's current block index (getCurrentBlockIndex)
  tg,        \* the ToggleBlock instances, by rootId
  readOnly,  \* the editor's read-only mode
  timers,    \* pending setTimeout(..., 0) callbacks, first in first out
  delayed,   \* pending setTimeout(..., 200) callbacks of extractBlock
  last,      \* the last handler that ran, its arguments and its host calls
  nextId,    \* the next identity the host gives to an inserted block
  ops,       \* number of user actions so far
  early,     \* a user action ran before every instance was initialised
  pre,       \* the last user action and the state it started from
  extracted  \* the blocks extractBlock's deferred callback untagged that
             \* no handler but restoreItemAttributes has tagged since

vars == <<blocks, cur, tg, readOnly, timers, delayed, last, nextId, ops, early, pre,
         extracted>>

(***************************************************************************)
(* Bounds of the model.                                                    *)
(***************************************************************************)
NBlocks == 4       \* blocks of the initial document
MaxToggles == 2    \* toggle roots of the initial document
MaxOps == 2        \* user actions in one behaviour

NoFk == 0
PlaceholderId == 0 - 1

(***************************************************************************)
(* Blocks.  name: the host's tool name; tid: the id of the                 *)
(* .toggle-block__selector wrapper inside the holder (NoFk when the block  *)
(* is no toggle root); fk: the holder's foreignKey attribute; item: the    *)
(* holder's class toggle-block__item; status: the holder's status          *)
(* attribute; hidden: the holder's hidden flag; hid: the holder's id       *)
(* attribute; owner: the instance whose setEventsToNestedBlock is the      *)
(* holder's onkeydown handler.                                             *)
(***************************************************************************)
Block(id, name, tid) ==
  [id |-> id, name |-> name, tid |-> tid, fk |-> NoFk, item |-> FALSE,
   status |-> "none", hidden |-> FALSE, hid |-> 0, owner |-> NoFk]

Placeholder == Block(PlaceholderId, "paragraph", NoFk)

Max(a, b) == IF a > b THEN a ELSE b
Min(a, b) == IF a < b THEN a ELSE b
Abs(a) == IF a < 0 THEN 0 - a ELSE a

ValidIndex(bs, i) == i >= 0 /\ i < Len(bs)

\* api.blocks.getBlockByIndex: a placeholder empty block outside the sequence
GetBlockByIndex(bs, i) == IF ValidIndex(bs, i) THEN bs[i + 1] ELSE Placeholder

RemoveAt(s, i) == SubSeq(s, 1, i) \o SubSeq(s, i + 2, Len(s))
InsertAt(s, i, x) == SubSeq(s, 1, i) \o <<x>> \o SubSeq(s, i + 1, Len(s))

\* Array.prototype.splice(start, 0, x)
SpliceInsert(s, start, x) ==
  LET k == IF start < 0 THEN Max(Len(s) + start, 0) ELSE Min(start, Len(s))
  IN InsertAt(s, k, x)

\* Array.prototype.splice(start, 1)
SpliceRemove(s, start) ==
  LET k == IF start < 0 THEN Max(Len(s) + start, 0) ELSE Min(start, Len(s))
  IN IF k < Len(s) THEN RemoveAt(s, k) ELSE s

\* Array.prototype.includes / indexOf (0-based, -1 when absent)
Includes(s, x) == \E k \in 1..Len(s) : s[k] = x
IndexOf(s, x) ==
  IF Includes(s, x) THEN (CHOOSE k \in 1..Len(s) : s[k] = x /\ \A j \in 1..(k - 1) : s[j] # x) - 1
  ELSE 0 - 1

\* arr[index] = x, growing the array with empty slots (0) when needed
AssignAt(s, index, x) ==
  [k \in 1..Max(Len(s), index + 1) |->
     IF k = index + 1 THEN x ELSE IF k <= Len(s) THEN s[k] ELSE 0]

\* getIndex(holder): the position of the block with identity id, -1 when gone
GetIndex(bs, id) ==
  IF \E k \in 1..Len(bs) : bs[k].id = id
  THEN (CHOOSE k \in 1..Len(bs) : bs[k].id = id) - 1
  ELSE 0 - 1

\* uuidv4(): an identifier no holder carries
Uuidv4(bs) ==
  CHOOSE n \in 1..(Len(bs) + 1) :
    /\ \A k \in 1..Len(bs) : bs[k].hid # n
    /\ \A m \in 1..(n - 1) : \E k \in 1..Len(bs) : bs[k].hid = m

(***************************************************************************)
(* Validation methods.                                                     *)
(***************************************************************************)
IsAToggleItem(b) == b.item
IsAToggleRoot(b) == b.tid # NoFk
HasForeignKey(b) == b.fk # NoFk

\* isPartOfAToggle applied to a holder: only toggle-block__item can be there
IsPartOfAToggleHolder(b) == b.item
\* isPartOfAToggle applied to a block's content element: the toggle wrapper
IsPartOfAToggleContent(b) == b.tid # NoFk

(***************************************************************************)
(* Hierarchy navigation: stateless queries over the current tags.          *)
(***************************************************************************)
\* document.querySelectorAll(`div[foreignKey="${fk}"]`), as positions (1-based)
Children(bs, fk) == {k \in 1..Len(bs) : bs[k].fk = fk}

RECURSIVE GetDecendentsNumberFrom(_, _, _, _)
GetDecendentsNumberFrom(bs, fk, k, fuel) ==
  IF k > Len(bs) \/ fuel = 0 THEN 0
  ELSE IF bs[k].fk # fk THEN GetDecendentsNumberFrom(bs, fk, k + 1, fuel)
  ELSE (IF bs[k].status # "none" /\ bs[k].tid # NoFk
        THEN GetDecendentsNumberFrom(bs, bs[k].tid, 1, fuel - 1)
        ELSE 0)
       + 1 + GetDecendentsNumberFrom(bs, fk, k + 1, fuel)

GetDecendentsNumber(bs, fk) == GetDecendentsNumberFrom(bs, fk, 1, Len(bs) + 1)

\* isChild as it runs: "true", "false", or "overflow" when the recursion
\* does not end (the parent-links form a cycle and the call stack overflows);
\* some() asks the children in document order and stops at the first true
RECURSIVE IsChildRun(_, _, _, _)
RECURSIVE IsChildSome(_, _, _, _, _)
IsChildSome(bs, parentID, targetFK, k, fuel) ==
  IF k > Len(bs) THEN "false"
  ELSE IF bs[k].fk # parentID \/ bs[k].tid = NoFk
  THEN IsChildSome(bs, parentID, targetFK, k + 1, fuel)
  ELSE LET r == IsChildRun(bs, bs[k].tid, targetFK, fuel - 1)
       IN IF r = "false" THEN IsChildSome(bs, parentID, targetFK, k + 1, fuel) ELSE r

IsChildRun(bs, parentID, targetFK, fuel) ==
  IF parentID = NoFk \/ targetFK = NoFk THEN "false"
  ELSE IF parentID = targetFK THEN "true"
  ELSE IF fuel = 0 THEN "overflow"
  ELSE IsChildSome(bs, parentID, targetFK, 1, fuel)

IsChildResult(bs, parentID, targetFK) == IsChildRun(bs, parentID, targetFK, Len(bs) + 1)

IsChild(bs, parentID, targetFK) == IsChildResult(bs, parentID, targetFK) = "true"

RECURSIVE FindToogleRootIndex(_, _, _)
FindToogleRootIndex(bs, entryIndex, fk) ==
  IF IsAToggleRoot(GetBlockByIndex(bs, entryIndex)) /\ GetBlockByIndex(bs, entryIndex).tid = fk
  THEN entryIndex
  ELSE IF entryIndex - 1 >= 0 THEN FindToogleRootIndex(bs, entryIndex - 1, fk)
  ELSE 0 - 1

RECURSIVE FindIndexOfParentBlockFuel(_, _, _, _, _)
FindIndexOfParentBlockFuel(bs, currentToggleFk, blockFk, toggleInitialIndex, fuel) ==
  LET parentBlockIndex == toggleInitialIndex - (GetDecendentsNumber(bs, blockFk) + 1)
      parentBlock == GetBlockByIndex(bs, parentBlockIndex)
      beforeBlock == GetBlockByIndex(bs, parentBlockIndex - 1)
  IN IF /\ fuel > 0
        /\ HasForeignKey(parentBlock)
        /\ parentBlock.fk # currentToggleFk
        /\ HasForeignKey(beforeBlock)
        /\ beforeBlock.fk # parentBlock.fk
     THEN FindIndexOfParentBlockFuel(bs, currentToggleFk, beforeBlock.fk, parentBlockIndex, fuel - 1)
     ELSE parentBlockIndex

FindIndexOfParentBlock(bs, currentToggleFk, blockFk, toggleInitialIndex) ==
  FindIndexOfParentBlockFuel(bs, currentToggleFk, blockFk, toggleInitialIndex, Len(bs) + 1)

\* getToggleId: the root's own id, overridden by the tag when it is a member
GetToggleId(bs, index) ==
  LET b == GetBlockByIndex(bs, index)
  IN IF IsAToggleItem(b) THEN b.fk
     ELSE IF IsAToggleRoot(b) THEN b.tid
     ELSE NoFk

(***************************************************************************)
(* Visibility propagation.                                                 *)
(***************************************************************************)
RECURSIVE HideAndShowFrom(_, _, _, _, _)
HideAndShowFrom(bs, foreignKey, value, k, fuel) ==
  IF k > Len(bs) \/ fuel = 0 THEN bs
  ELSE IF bs[k].fk # foreignKey THEN HideAndShowFrom(bs, foreignKey, value, k + 1, fuel)
  ELSE LET b1 == [bs EXCEPT ![k].hidden = (value = "closed")]
           childValue == IF value = "closed" THEN value ELSE bs[k].status
           b2 == IF bs[k].tid # NoFk
                 THEN HideAndShowFrom(b1, bs[k].tid, childValue, 1, fuel - 1)
                 ELSE b1
       IN HideAndShowFrom(b2, foreignKey, value, k + 1, fuel)

MutHideAndShowBlocks(bs, foreignKey, value) ==
  LET r == HideAndShowFrom(bs, foreignKey, value, 1, Len(bs) + 1)
  IN [k \in 1..Len(r) |->
        IF r[k].fk = foreignKey /\ r[k].tid # NoFk THEN [r[k] EXCEPT !.status = value]
        ELSE r[k]]

HideAndShowBlocks(bs, foreignKey, value) ==
  HideAndShowFrom(bs, foreignKey, value, 1, Len(bs) + 1)

\* highlightToggleItems(fk): the positions (1-based) of the holders it marks
\* as selected; it descends into a child only when the child's holder has a
\* status attribute
RECURSIVE HighlightFuel(_, _, _)
HighlightFuel(bs, fk, fuel) ==
  IF fk = NoFk \/ fuel = 0 THEN {}
  ELSE Children(bs, fk)
       \cup UNION {HighlightFuel(bs, bs[k].tid, fuel - 1) :
                     k \in {j \in Children(bs, fk) : bs[j].status # "none"}}

HighlightToggleItems(bs, fk) == HighlightFuel(bs, fk, Len(bs) + 1)

(***************************************************************************)
(* A handler runs on a world w: the block sequence, the current index, the *)
(* instances, the host moves it called (calls: <<toIndex, fromIndex>>) and *)
(* the childList mutation records the host's DOM changes produced (recs:   *)
(* the removed node's identity and whether it was a toggle item; id 0 for  *)
(* a record without removed nodes).                                        *)
(***************************************************************************)
World(bs, c, t) == [blocks |-> bs, cur |-> c, tg |-> t, calls |-> <<>>, recs |-> {}]

\* api.blocks.move(toIndex, fromIndex): ignored unless both indexes are valid
HostMove(w, toIndex, fromIndex) ==
  IF ValidIndex(w.blocks, toIndex) /\ ValidIndex(w.blocks, fromIndex)
  THEN LET b == w.blocks[fromIndex + 1]
       IN [w EXCEPT !.blocks = InsertAt(RemoveAt(w.blocks, fromIndex), toIndex, b),
                    !.cur = toIndex,
                    !.calls = Append(w.calls, <<toIndex, fromIndex>>),
                    !.recs = w.recs \cup {[id |-> b.id, item |-> b.item]}]
  ELSE [w EXCEPT !.calls = Append(w.calls, <<toIndex, fromIndex>>)]

\* api.blocks.delete(index)
HostDelete(w, index) ==
  IF ValidIndex(w.blocks, index)
  THEN LET b == w.blocks[index + 1]
           c == IF w.cur >= index THEN w.cur - 1 ELSE w.cur
       IN [w EXCEPT !.blocks = RemoveAt(w.blocks, index),
                    !.cur = Max(c, 0),
                    !.recs = w.recs \cup {[id |-> b.id, item |-> b.item]}]
  ELSE w

\* api.blocks.insert('paragraph', data, {}, index, needToFocus)
HostInsert(w, index, id) ==
  LET k == Min(Max(index, 0), Len(w.blocks))
  IN [w EXCEPT !.blocks = InsertAt(w.blocks, k, Block(id, "paragraph", NoFk)),
               !.cur = k,
               !.recs = w.recs \cup {[id |-> 0, item |-> FALSE]}]

\* api.caret.setToBlock(index)
SetToBlock(w, index) ==
  IF ValidIndex(w.blocks, index) THEN [w EXCEPT !.cur = index] ELSE w

(***************************************************************************)
(* Membership tagger.  t is the instance the method is called on.          *)
(***************************************************************************)
\* setAttributesToNewBlock writing the foreign key on the wrapper as well
MutSetAttributesToNewBlock(w, t, index, foreignKey) ==
  LET newBlock == GetBlockByIndex(w.blocks, index)
      bs1 == IF ValidIndex(w.blocks, index)
             THEN [w.blocks EXCEPT ![index + 1] =
                     [@ EXCEPT !.fk = foreignKey, !.hid = Uuidv4(w.blocks), !.item = TRUE,
                               !.tid = IF @ = NoFk THEN @ ELSE foreignKey,
                               !.owner = IF readOnly THEN @ ELSE t]]
             ELSE w.blocks
      ids == w.tg[t].itemsId
      ids1 == IF ~Includes(ids, newBlock.id) THEN SpliceInsert(ids, index - 1, newBlock.id) ELSE ids
  IN [w EXCEPT !.blocks = bs1, !.tg = [w.tg EXCEPT ![t].itemsId = ids1]]

SetAttributesToNewBlock(w, t, index, foreignKey) ==
  LET newBlock == GetBlockByIndex(w.blocks, index)
      bs1 == IF ValidIndex(w.blocks, index)
             THEN [w.blocks EXCEPT ![index + 1] =
                     [@ EXCEPT !.fk = foreignKey, !.hid = Uuidv4(w.blocks), !.item = TRUE,
                               !.owner = IF readOnly THEN @ ELSE t]]
             ELSE w.blocks
      ids == w.tg[t].itemsId
      ids1 == IF ~Includes(ids, newBlock.id) THEN SpliceInsert(ids, index - 1, newBlock.id) ELSE ids
  IN [w EXCEPT !.blocks = bs1, !.tg = [w.tg EXCEPT ![t].itemsId = ids1]]

RemoveAttributesFromNewBlock(w, t, destiny) ==
  LET newBlock == GetBlockByIndex(w.blocks, destiny)
      ids == w.tg[t].itemsId
      ids1 == IF ~Includes(ids, newBlock.id) THEN SpliceRemove(ids, IndexOf(ids, newBlock.id)) ELSE ids
      bs1 == IF ValidIndex(w.blocks, destiny)
             THEN [w.blocks EXCEPT ![destiny + 1] =
                     [@ EXCEPT !.fk = NoFk, !.hid = 0, !.item = FALSE, !.owner = NoFk]]
             ELSE w.blocks
  IN [w EXCEPT !.blocks = bs1, !.tg = [w.tg EXCEPT ![t].itemsId = ids1]]

\* nestBlock(currentIndex)
NestBlock(w, t, currentIndex) ==
  IF currentIndex - 1 >= 0 /\ GetToggleId(w.blocks, currentIndex - 1) # NoFk
  THEN SetAttributesToNewBlock(w, t, currentIndex, GetToggleId(w.blocks, currentIndex - 1))
  ELSE w

(***************************************************************************)
(* Ordering engine.                                                        *)
(***************************************************************************)
RECURSIVE MoveDecendents(_, _, _, _, _)
MoveDecendents(w, children, finalIndex, parentInitialIndex, direction) ==
  IF children <= 0 THEN w
  ELSE LET w1 == HostMove(w, finalIndex, parentInitialIndex)
       IN IF direction = 0
          THEN MoveDecendents(w1, children - 1, finalIndex + 1, parentInitialIndex + 1, direction)
          ELSE MoveDecendents(w1, children - 1, finalIndex, parentInitialIndex, direction)

MutMoveDown(w, toggleInitialIndex, toggleEndIndex) ==
  LET blockAfterToggleIndex == toggleEndIndex + 1
      blockAfterToggle == GetBlockByIndex(w.blocks, blockAfterToggleIndex)
      w1 == HostMove(w, toggleInitialIndex + 1, blockAfterToggleIndex)
  IN IF blockAfterToggle.name = "toggle"
     THEN MoveDecendents(w1, GetDecendentsNumber(w1.blocks, blockAfterToggle.tid),
                         toggleInitialIndex + 1, blockAfterToggleIndex + 1, 0)
     ELSE w1

MoveDown(w, toggleInitialIndex, toggleEndIndex) ==
  LET blockAfterToggleIndex == toggleEndIndex + 1
      blockAfterToggle == GetBlockByIndex(w.blocks, blockAfterToggleIndex)
      w1 == HostMove(w, toggleInitialIndex, blockAfterToggleIndex)
  IN IF blockAfterToggle.name = "toggle"
     THEN MoveDecendents(w1, GetDecendentsNumber(w1.blocks, blockAfterToggle.tid),
                         toggleInitialIndex + 1, blockAfterToggleIndex + 1, 0)
     ELSE w1

\* moveUp without the return when the block before the root is a toggle
MutMoveUp(w, toggleInitialIndex, toggleEndIndex) ==
  LET blockBeforeToggleIndex == toggleInitialIndex - 1
      blockBeforeToggle == GetBlockByIndex(w.blocks, blockBeforeToggleIndex)
      currentToggleFk == GetBlockByIndex(w.blocks, toggleInitialIndex).fk
      fk == blockBeforeToggle.fk
      parentBlockIdx == FindIndexOfParentBlock(w.blocks, currentToggleFk, fk, toggleInitialIndex)
      parentBlock == GetBlockByIndex(w.blocks, parentBlockIdx)
  IN IF HasForeignKey(blockBeforeToggle) /\ fk # currentToggleFk
     THEN IF parentBlock.tid = NoFk
          THEN w
          ELSE MoveDecendents(HostMove(w, toggleEndIndex, parentBlockIdx),
                              GetDecendentsNumber(w.blocks, parentBlock.tid),
                              toggleEndIndex, parentBlockIdx, 1)
     ELSE HostMove(w, toggleEndIndex, blockBeforeToggleIndex)

MoveUp(w, toggleInitialIndex, toggleEndIndex) ==
  LET blockBeforeToggleIndex == toggleInitialIndex - 1
      blockBeforeToggle == GetBlockByIndex(w.blocks, blockBeforeToggleIndex)
      currentToggleFk == GetBlockByIndex(w.blocks, toggleInitialIndex).fk
      fk == blockBeforeToggle.fk
      parentBlockIdx == FindIndexOfParentBlock(w.blocks, currentToggleFk, fk, toggleInitialIndex)
      parentBlock == GetBlockByIndex(w.blocks, parentBlockIdx)
  IN IF blockBeforeToggle.name = "toggle" THEN w
     ELSE IF HasForeignKey(blockBeforeToggle) /\ fk # currentToggleFk
     THEN IF parentBlock.tid = NoFk
          THEN w   \* querySelector gives null: the handler throws before it moves
          ELSE MoveDecendents(HostMove(w, toggleEndIndex, parentBlockIdx),
                              GetDecendentsNumber(w.blocks, parentBlock.tid),
                              toggleEndIndex, parentBlockIdx, 1)
     ELSE HostMove(w, toggleEndIndex, blockBeforeToggleIndex)

MutMoveToggle(w, t, toggleInitialIndex, direction) ==
  LET currentToggleIndex == w.cur
      decendents == GetDecendentsNumber(w.blocks, t)
      blocksCount == Len(w.blocks)
      toggleEndIndex == toggleInitialIndex + decendents
      w1 == HostMove(w, toggleInitialIndex, currentToggleIndex)
      w2 == IF toggleInitialIndex >= 0 /\ toggleEndIndex <= blocksCount - 1
            THEN IF direction = 0
                 THEN MoveDown(w1, toggleInitialIndex, toggleEndIndex)
                 ELSE MoveUp(w1, toggleInitialIndex, toggleEndIndex)
            ELSE w1
  IN IF readOnly THEN w
     ELSE RemoveAttributesFromNewBlock(w2, t, GetIndex(w2.blocks, w.blocks[w.cur + 1].id))

MoveToggle(w, t, toggleInitialIndex, direction) ==
  LET currentToggleIndex == w.cur
      decendents == GetDecendentsNumber(w.blocks, t)
      blocksCount == Len(w.blocks)
      toggleEndIndex == toggleInitialIndex + decendents
      w1 == HostMove(w, toggleInitialIndex, currentToggleIndex)
  IN IF readOnly THEN w
     ELSE IF toggleInitialIndex >= 0 /\ toggleEndIndex <= blocksCount - 1
     THEN IF direction = 0
          THEN MoveDown(w1, toggleInitialIndex, toggleEndIndex)
          ELSE MoveUp(w1, toggleInitialIndex, toggleEndIndex)
     ELSE w1

\* the identities of the blocks tagged fk in document order, reversed when
\* the drag goes towards the start of the sequence
RECURSIVE KidsFrom(_, _, _)
KidsFrom(bs, fk, k) ==
  IF k > Len(bs) THEN <<>>
  ELSE IF bs[k].fk = fk THEN <<bs[k].id>> \o KidsFrom(bs, fk, k + 1)
  ELSE KidsFrom(bs, fk, k + 1)

Reverse(s) == [k \in 1..Len(s) |-> s[Len(s) + 1 - k]]

Kids(bs, fk, startBlock, endBlock) ==
  IF startBlock >= endBlock THEN Reverse(KidsFrom(bs, fk, 1)) ELSE KidsFrom(bs, fk, 1)

RECURSIVE MoveChildrenList(_, _, _, _, _)
MoveChildrenList(w, startBlock, endBlock, kids, fuel) ==
  IF kids = <<>> \/ fuel = 0 THEN w
  ELSE LET child == Head(kids)
           w1 == HostMove(w, endBlock, GetIndex(w.blocks, child))
           toggleIndex == GetIndex(w1.blocks, child)
           b == GetBlockByIndex(w1.blocks, toggleIndex)
           isToggle == b.tid # NoFk
           fix == IF startBlock < endBlock THEN 0 ELSE 1
           w2 == IF isToggle
                 THEN MoveChildrenList(w1, startBlock, toggleIndex + fix,
                                       Kids(w1.blocks, b.tid, startBlock, toggleIndex + fix),
                                       fuel - 1)
                 ELSE w1
           dif == Abs(endBlock - toggleIndex)
           endBlock2 == IF ~isToggle THEN endBlock
                        ELSE IF startBlock < endBlock THEN endBlock + dif
                        ELSE endBlock - dif
       IN MoveChildrenList(w2, startBlock, endBlock2, Tail(kids), fuel)

MoveChildren(w, startBlock, endBlock, fk) ==
  MoveChildrenList(w, startBlock, endBlock, Kids(w.blocks, fk, startBlock, endBlock),
                   Len(w.blocks) + 1)

\* extractBlock(entryIndex) without its deferred untag: the world and the
\* position the untag is scheduled for (-1 when none is scheduled)
ExtractDestiny(bs, entryIndex) ==
  LET b == GetBlockByIndex(bs, entryIndex)
      parentIndex == FindToogleRootIndex(bs, entryIndex, b.fk)
  IN IF IsAToggleItem(b) /\ parentIndex >= 0
     THEN parentIndex + GetDecendentsNumber(bs, b.fk)
     ELSE 0 - 1

ExtractBlock(w, entryIndex) ==
  LET b == GetBlockByIndex(w.blocks, entryIndex)
      parentIndex == FindToogleRootIndex(w.blocks, entryIndex, b.fk)
      items == GetDecendentsNumber(w.blocks, b.fk)
      destiny == parentIndex + items
      w1 == IF IsAToggleItem(b) /\ parentIndex >= 0 /\ items > 1
            THEN HostMove(w, destiny, entryIndex)
            ELSE w
  IN SetToBlock(w1, entryIndex)

\* removeFullToggle(toggleIndex)
RECURSIVE DeleteTimes(_, _, _)
DeleteTimes(w, index, n) ==
  IF n <= 0 THEN w ELSE DeleteTimes(HostDelete(w, index), index, n - 1)

RemoveFullToggle(w, t, toggleIndex) ==
  DeleteTimes(w, toggleIndex, Cardinality(Children(w.blocks, t)))

\* resolveToggleAction()
ResolveToggleAction(w, t) ==
  LET st == IF w.tg[t].status = "closed" THEN "open" ELSE "closed"
      bs1 == IF ValidIndex(w.blocks, w.cur)
             THEN [w.blocks EXCEPT ![w.cur + 1].status = st]
             ELSE w.blocks
  IN [w EXCEPT !.tg = [w.tg EXCEPT ![t].status = st], !.blocks = bs1]

\* removeToggle on Backspace with the caret at the start of the title
RECURSIVE RemoveAttributesFrom(_, _, _, _, _)
RemoveAttributesFrom(w, t, index, i, n) ==
  IF i >= n + 1 THEN w
  ELSE RemoveAttributesFrom(RemoveAttributesFromNewBlock(w, t, index + i), t, index, i + 1, n)

RemoveToggle(w, t, id) ==
  LET index == w.cur
      n == Cardinality(Children(w.blocks, t))
      w1 == RemoveAttributesFrom(w, t, index, 1, n)
      w2 == HostDelete(w1, index)
      w3 == HostInsert(w2, index, id)
  IN SetToBlock(w3, index)

\* createParagraphFromToggleRoot on Enter
CreateParagraphFromToggleRoot(w, t, id) ==
  LET originalIndex == w.cur
      w1 == IF w.tg[t].status = "closed"
            THEN LET r == ResolveToggleAction(w, t)
                 IN [r EXCEPT !.blocks = HideAndShowBlocks(r.blocks, t, r.tg[t].status)]
            ELSE w
      w2 == HostInsert(w1, originalIndex + 1, id)
  IN SetAttributesToNewBlock(w2, t, w2.cur, t)

\* renderItems(): the loop over toggleRoot + 1 .. toggleRoot + items
RECURSIVE RenderItemsFrom(_, _, _, _, _)
RenderItemsFrom(w, t, toggleRoot, i, j) ==
  IF i > toggleRoot + w.tg[t].items THEN w
  ELSE IF ~IsPartOfAToggleContent(GetBlockByIndex(w.blocks, i))
  THEN RenderItemsFrom(SetAttributesToNewBlock(w, t, i, t), t, toggleRoot, i + 1, j + 1)
  ELSE [w EXCEPT !.tg = [w.tg EXCEPT ![t].items = j]]

\* renderItems(), with toggleRoot the position of the wrapper of t
RenderItems(w, t) ==
  LET toggleRoot == (CHOOSE k \in 1..Len(w.blocks) : w.blocks[k].tid = t) - 1
      w1 == IF toggleRoot + w.tg[t].items < Len(w.blocks)
            THEN RenderItemsFrom(w, t, toggleRoot, toggleRoot + 1, 0)
            ELSE [w EXCEPT !.tg = [w.tg EXCEPT ![t].items = 0]]
  IN [w1 EXCEPT !.blocks = HideAndShowBlocks(w1.blocks, t, w1.tg[t].status)]

\* the callback render() defers: renderItems, then nestBlock(index) when the
\* block that was current at render() has become a member
RenderTimer(w, t, index) ==
  LET w1 == RenderItems(w, t)
  IN IF IsAToggleItem(GetBlockByIndex(w1.blocks, index)) THEN NestBlock(w1, t, index) ELSE w1

\* save() keeping the item count of the data
MutSaveData(bs, t, d) ==
  [status |-> d.status, fk |-> t, items |-> d.items]

\* save(): the record returned, which is this.data itself
SaveData(bs, t, d) ==
  [status |-> d.status, fk |-> t, items |-> Cardinality(Children(bs, t))]

(***************************************************************************)
(* Deferred callbacks.                                                     *)
(***************************************************************************)
Timer(k, t) ==
  [k |-> k, t |-> t, startBlock |-> 0, endBlock |-> 0, isTargetAToggle |-> FALSE,
   target |-> 0, dragged |-> 0, name |-> "", recs |-> {}]

\* the instances in the order they were constructed (ascending rootId)
InstanceSeq(t) ==
  LET top == IF DOMAIN t = {} THEN 0 ELSE CHOOSE m \in DOMAIN t : \A u \in DOMAIN t : u <= m
      all == [k \in 1..top |-> k]
      Live(k) == k \in DOMAIN t
  IN SelectSeq(all, Live)

\* addSupportForUndoAndRedoActions: for a batch of childList records every
\* instance defers one restoreItemAttributes per record; these callbacks run
\* one after the other, instance by instance, and are one entry here
RestoreTimers(t, recs) ==
  IF recs = {} \/ readOnly \/ DOMAIN t = {} THEN <<>>
  ELSE <<[Timer("restore", NoFk) EXCEPT !.recs = recs]>>

\* restoreItemAttributes over the records of one batch
RestoreItemAttributes(w, t, recs) ==
  LET index == w.cur
      block == GetBlockByIndex(w.blocks, index)
      currentBlockValidation == ~IsPartOfAToggleHolder(block)
      removedItem ==
        \E r \in recs :
          /\ r.id # 0
          /\ IF GetIndex(w.blocks, r.id) >= 0
             THEN IsPartOfAToggleHolder(GetBlockByIndex(w.blocks, GetIndex(w.blocks, r.id)))
             ELSE r.item
  IN IF Includes(w.tg[t].itemsId, block.id) /\ currentBlockValidation
     THEN SetAttributesToNewBlock(w, t, index, t)
     ELSE IF removedItem /\ currentBlockValidation /\ ~IsPartOfAToggleContent(block)
     THEN LET w1 == SetAttributesToNewBlock(w, t, index, t)
          IN [w1 EXCEPT !.tg = [w1.tg EXCEPT ![t].itemsId = AssignAt(@, index, block.id)]]
     ELSE w

RECURSIVE RestoreAll(_, _, _)
RestoreAll(w, insts, recs) ==
  IF insts = <<>> THEN w
  ELSE RestoreAll(RestoreItemAttributes(w, Head(insts), recs), Tail(insts), recs)

\* the deferred part of the drop listener of instance t
DropTimer(w, t, tm) ==
  LET target == GetBlockByIndex(w.blocks, GetIndex(w.blocks, tm.target))
      newToggleIndex == GetIndex(w.blocks, tm.dragged)
      mine == tm.name = "toggle" /\ GetBlockByIndex(w.blocks, newToggleIndex).tid = t
      foreignKey == IF target.fk # NoFk THEN target.fk ELSE target.tid
      w1 == IF ~mine THEN w
            ELSE IF ~IsChild(w.blocks, t, target.fk)
            THEN MoveChildren(IF tm.isTargetAToggle
                              THEN SetAttributesToNewBlock(w, t, newToggleIndex, foreignKey)
                              ELSE w,
                              tm.startBlock, tm.endBlock, t)
            ELSE LET m == IF tm.startBlock = tm.endBlock
                          THEN HostMove(w, tm.startBlock + 1, tm.endBlock)
                          ELSE HostMove(w, tm.startBlock, tm.endBlock)
                 IN IF ~tm.isTargetAToggle
                    THEN RemoveAttributesFromNewBlock(m, t, GetIndex(m.blocks, tm.dragged))
                    ELSE m
  IN IF mine /\ IsChildResult(w.blocks, t, target.fk) = "overflow"
     THEN w   \* isChild overflows the call stack: the callback throws
     ELSE IF ~tm.isTargetAToggle
     THEN RemoveAttributesFromNewBlock(w1, t, GetIndex(w1.blocks, tm.dragged))
     ELSE w1

\* the keyup listener of addListener, run by every instance in turn
RECURSIVE NestBlockAll(_, _, _)
NestBlockAll(w, insts, currentIndex) ==
  IF insts = <<>> THEN w
  ELSE NestBlockAll(NestBlock(w, Head(insts), currentIndex), Tail(insts), currentIndex)

(***************************************************************************)
(* Initial states: a document whose toggles satisfy the forest invariant,  *)
(* written as an outline (each block a toggle or a paragraph, at a depth). *)
(* Block identities and rootIds are the initial positions 1..NBlocks.      *)
(* Every toggle has been constructed and rendered; in edit mode its        *)
(* addSupportForDragAndDropActions is still pending (ready is false, the   *)
(* holder has no status attribute), in read-only mode it never runs.       *)
(* renderItems stops at a toggle root, so a loaded document is flat; the   *)
(* nested outlines are the documents nestBlock and the drop listener make  *)
(* of it, which they can do before the pending initialisation has run.     *)
(* A read-only document has no such handler: it has no nested toggle.      *)
(***************************************************************************)
Outlines ==
  {o \in [1..NBlocks -> [toggle : BOOLEAN, depth : 0..MaxToggles]] :
     /\ o[1].depth = 0
     /\ \A i \in 1..(NBlocks - 1) :
          /\ o[i + 1].depth <= o[i].depth + 1
          /\ o[i + 1].depth = o[i].depth + 1 => o[i].toggle
     /\ Cardinality({i \in 1..NBlocks : o[i].toggle}) <= MaxToggles}

OutlineParent(o, i) ==
  IF o[i].depth = 0 THEN NoFk
  ELSE CHOOSE j \in 1..(i - 1) :
         /\ o[j].depth = o[i].depth - 1
         /\ \A m \in (j + 1)..(i - 1) : o[m].depth >= o[i].depth

RECURSIVE OutlineHidden(_, _, _)
OutlineHidden(o, st, i) ==
  LET p == OutlineParent(o, i)
  IN IF p = NoFk THEN FALSE ELSE st[p] = "closed" \/ OutlineHidden(o, st, p)

InitBlocks(o, st, rd) ==
  [i \in 1..NBlocks |->
     [id |-> i,
      name |-> IF o[i].toggle THEN "toggle" ELSE "paragraph",
      tid |-> IF o[i].toggle THEN i ELSE NoFk,
      fk |-> OutlineParent(o, i),
      item |-> OutlineParent(o, i) # NoFk,
      status |-> IF o[i].toggle /\ rd[i] THEN st[i] ELSE "none",
      hidden |-> OutlineHidden(o, st, i),
      hid |-> IF OutlineParent(o, i) # NoFk THEN i ELSE 0,
      owner |-> IF readOnly THEN NoFk ELSE OutlineParent(o, i)]]

InitToggles(o, st, rd) ==
  [t \in {i \in 1..NBlocks : o[i].toggle} |->
     [status |-> st[t],
      items |-> Cardinality({i \in 1..NBlocks : OutlineParent(o, i) = t}),
      itemsId |-> KidsFrom(InitBlocks(o, st, rd), t, 1),
      ready |-> rd[t]]]

Init ==
  /\ readOnly \in BOOLEAN
  /\ \E o \in Outlines :
       LET T == {i \in 1..NBlocks : o[i].toggle}
           rd == [t \in T |-> FALSE]
       IN \E st \in [T -> {"open", "closed"}] :
            /\ readOnly => \A t \in T : o[t].depth = 0
            /\ blocks = InitBlocks(o, st, rd)
            /\ tg = InitToggles(o, st, rd)
  /\ cur = IF readOnly THEN 0 - 1 ELSE 0
  /\ timers = <<>>
  /\ delayed = <<>>
  /\ last = [op |-> "init", t |-> NoFk, a |-> 0, b |-> 0, calls |-> <<>>]
  /\ nextId = NBlocks + 1
  /\ ops = 0
  /\ early = FALSE
  /\ pre = [blocks |-> blocks, tg |-> tg, op |-> "init", t |-> NoFk, a |-> 0, b |-> 0]
  /\ extracted = {}

(***************************************************************************)
(* Actions.  A user action is taken when no zero-delay callback is         *)
(* pending: the callbacks of one event run before the next input event.    *)
(***************************************************************************)
\* the blocks the deferred untag of extractBlock has left untagged: the step
\* "untag" adds the extracted block when it is the one it untagged, every
\* step but "restore" drops the blocks that are tagged or gone after it
ExtractedNow(w, op, a) ==
  LET now == IF op = "untag" /\ delayed # <<>> /\ ValidIndex(w.blocks, a)
             THEN {w.blocks[a + 1].id} \cap {Head(delayed).block}
             ELSE {}
  IN IF op = "restore" THEN extracted
     ELSE {x \in extracted \cup now :
             \E k \in 1..Len(w.blocks) : w.blocks[k].id = x /\ w.blocks[k].fk = NoFk}

Commit(w, op, t, a, b, tms, dl) ==
  /\ blocks' = w.blocks
  /\ cur' = w.cur
  /\ tg' = w.tg
  /\ timers' = tms
  /\ delayed' = dl
  /\ last' = [op |-> op, t |-> t, a |-> a, b |-> b, calls |-> w.calls]
  /\ extracted' = ExtractedNow(w, op, a)

UserReady == timers = <<>> /\ ops < MaxOps

\* what every user action records besides its effect
User(op, t, a, b) ==
  /\ ops' = ops + 1
  /\ early' = (early \/ \E u \in DOMAIN tg : ~tg[u].ready)
  /\ pre' = [blocks |-> blocks, tg |-> tg, op |-> op, t |-> t, a |-> a, b |-> b]

Visible(i) == ValidIndex(blocks, i) /\ ~blocks[i + 1].hidden

\* the position of the root block of toggle t, -1 when it is gone
RootIndex(bs, t) ==
  IF \E k \in 1..Len(bs) : bs[k].tid = t
  THEN (CHOOSE k \in 1..Len(bs) : bs[k].tid = t /\ \A j \in 1..(k - 1) : bs[j].tid # t) - 1
  ELSE 0 - 1

Fresh(w) == [w EXCEPT !.calls = <<>>, !.recs = {}]

\* Tab released in block i: the keyup listener of every instance nests it
Tab(i) ==
  /\ UserReady /\ ~readOnly /\ Visible(i)
  /\ Commit(NestBlockAll(World(blocks, i, tg), InstanceSeq(tg), i),
            "nest", NoFk, i, 0, <<>>, delayed)
  /\ User("nest", NoFk, i, 0)
  /\ UNCHANGED <<readOnly, nextId>>

\* Shift+Tab pressed in the member at i: the onkeydown handler of the
\* holder extracts it; the untag is deferred by 200 ms; the Tab keyup follows.
\* The record of the deferred untag also remembers which block was extracted
\* (block), which the callback itself never reads.
ShiftTab(i) ==
  /\ UserReady /\ ~readOnly /\ Visible(i)
  /\ blocks[i + 1].owner # NoFk
  /\ LET w == ExtractBlock(World(blocks, i, tg), i)
         destiny == ExtractDestiny(blocks, i)
     IN Commit(w, "extract", blocks[i + 1].owner, i, destiny,
               RestoreTimers(tg, w.recs) \o <<Timer("keyup", NoFk)>>,
               IF destiny >= 0
               THEN Append(delayed, [t |-> blocks[i + 1].owner, destiny |-> destiny,
                                     block |-> blocks[i + 1].id])
               ELSE delayed)
  /\ User("extract", blocks[i + 1].owner, i, ExtractDestiny(blocks, i))
  /\ UNCHANGED <<readOnly, nextId>>

\* the settings' move button of toggle t: the host first moves the root one
\* position itself, then the listener of addEventsMoveButtons runs
MoveToggleClick(t, direction) ==
  /\ UserReady /\ ~readOnly
  /\ t \in DOMAIN tg
  /\ Visible(RootIndex(blocks, t))
  /\ LET p == RootIndex(blocks, t)
         w0 == World(blocks, p, tg)
         h == IF direction = 1
              THEN (IF p = 0 THEN w0 ELSE HostMove(w0, p - 1, p))
              ELSE (IF ValidIndex(blocks, p + 1) THEN HostMove(w0, p + 1, p) ELSE w0)
         w == MoveToggle(Fresh(h), t, p, direction)
     IN Commit(w, "moveToggle", t, p, direction,
               RestoreTimers(tg, h.recs) \o RestoreTimers(tg, w.recs), delayed)
  /\ User("moveToggle", t, RootIndex(blocks, t), direction)
  /\ UNCHANGED <<readOnly, nextId>>

\* the settings' delete button of toggle t, confirmed: the host deletes the
\* root, then the listener of renderSettings runs removeFullToggle
DeleteClick(t) ==
  /\ UserReady /\ ~readOnly
  /\ t \in DOMAIN tg
  /\ Visible(RootIndex(blocks, t))
  /\ LET p == RootIndex(blocks, t)
         h == HostDelete(World(blocks, p, tg), p)
         w == RemoveFullToggle(Fresh(h), t, p)
         e == IF w.blocks = <<>>
              THEN [w EXCEPT !.blocks = <<Block(nextId, "paragraph", NoFk)>>, !.cur = 0]
              ELSE w
     IN /\ Commit(e, "delete", t, p, 0,
                  RestoreTimers(tg, h.recs) \o RestoreTimers(tg, w.recs), delayed)
        /\ nextId' = IF w.blocks = <<>> THEN nextId + 1 ELSE nextId
  /\ User("delete", t, RootIndex(blocks, t), 0)
  /\ UNCHANGED readOnly

\* a click on the icon of toggle t
IconClick(t) ==
  /\ UserReady
  /\ t \in DOMAIN tg
  /\ Visible(RootIndex(blocks, t))
  /\ LET p == RootIndex(blocks, t)
         w == ResolveToggleAction(World(blocks, IF readOnly THEN cur ELSE p, tg), t)
     IN Commit(w, "click", t, p, 0, <<Timer("hideshow", t)>>, delayed)
  /\ User("click", t, RootIndex(blocks, t), 0)
  /\ UNCHANGED <<readOnly, nextId>>

\* Enter released in the title of toggle t
EnterInTitle(t) ==
  /\ UserReady /\ ~readOnly
  /\ t \in DOMAIN tg
  /\ Visible(RootIndex(blocks, t))
  /\ LET p == RootIndex(blocks, t)
         w == CreateParagraphFromToggleRoot(World(blocks, p, tg), t, nextId)
     IN Commit(w, "enter", t, p, 0, RestoreTimers(tg, w.recs), delayed)
  /\ nextId' = nextId + 1
  /\ User("enter", t, RootIndex(blocks, t), 0)
  /\ UNCHANGED readOnly

\* Backspace pressed at the start of the title of toggle t, whose holder
\* carries no key handler of another instance
BackspaceInTitle(t) ==
  /\ UserReady /\ ~readOnly
  /\ t \in DOMAIN tg
  /\ Visible(RootIndex(blocks, t))
  /\ blocks[RootIndex(blocks, t) + 1].owner = NoFk
  /\ LET p == RootIndex(blocks, t)
         w == RemoveToggle(World(blocks, p, tg), t, nextId)
     IN Commit(w, "removeToggle", t, p, 0, RestoreTimers(tg, w.recs), delayed)
  /\ nextId' = nextId + 1
  /\ User("removeToggle", t, RootIndex(blocks, t), 0)
  /\ UNCHANGED readOnly

\* Enter pressed in the member paragraph at i: the host, whose keydown
\* listener was attached to the holder when the block was made, puts a new
\* paragraph after it and makes it current; then the holder's onkeydown,
\* setEventsToNestedBlock of the instance that tagged the member last, tags
\* the current block with that instance's rootId
SetEventsToNestedBlockEnter(w, t) ==
  IF ~IsAToggleRoot(GetBlockByIndex(w.blocks, w.cur))
  THEN SetAttributesToNewBlock(w, t, w.cur, t)
  ELSE w

EnterInMember(i) ==
  /\ UserReady /\ ~readOnly /\ Visible(i)
  /\ blocks[i + 1].name = "paragraph"
  /\ blocks[i + 1].owner \in DOMAIN tg
  /\ LET h == HostInsert(World(blocks, i, tg), i + 1, nextId)
         w == SetEventsToNestedBlockEnter(h, blocks[i + 1].owner)
     IN Commit(w, "enterMember", blocks[i + 1].owner, i, 0, RestoreTimers(tg, w.recs), delayed)
  /\ nextId' = nextId + 1
  /\ User("enterMember", blocks[i + 1].owner, i, 0)
  /\ UNCHANGED readOnly

\* the block at from is dragged by the settings button and dropped on the
\* block at onto: the host moves it there, then the drop listener of every
\* initialised instance runs and defers its work
DropTimers(t, startBlock, endBlock, isT, target, dragged, name) ==
  LET rdy == SelectSeq(InstanceSeq(t), LAMBDA k : t[k].ready)
  IN [k \in 1..Len(rdy) |->
        [Timer("drop", rdy[k]) EXCEPT !.startBlock = startBlock, !.endBlock = endBlock,
                                      !.isTargetAToggle = isT, !.target = target,
                                      !.dragged = dragged, !.name = name]]

Drop(from, onto) ==
  /\ UserReady /\ ~readOnly
  /\ from # onto /\ Visible(from) /\ Visible(onto)
  /\ LET dragged == blocks[from + 1]
         target == blocks[onto + 1]
         h == HostMove(World(blocks, from, tg), onto, from)
         e0 == GetIndex(h.blocks, target.id)
         endBlock == IF from < e0 THEN e0 + 1 ELSE e0
         isT == target.tid # NoFk \/ target.fk # NoFk
     IN Commit(h, "drop", dragged.tid, from, onto,
               RestoreTimers(tg, h.recs)
                 \o DropTimers(tg, from, endBlock, isT, target.id, dragged.id, dragged.name),
               delayed)
  /\ User("drop", blocks[from + 1].tid, from, onto)
  /\ UNCHANGED <<readOnly, nextId>>

\* addSupportForDragAndDropActions, 250 ms after construction
DndInit(t) ==
  /\ timers = <<>> /\ ~readOnly
  /\ t \in DOMAIN tg /\ ~tg[t].ready
  /\ \A u \in DOMAIN tg : u < t => tg[u].ready
  /\ RootIndex(blocks, t) >= 0
  /\ blocks' = [blocks EXCEPT ![RootIndex(blocks, t) + 1].status = tg[t].status]
  /\ tg' = [tg EXCEPT ![t].ready = TRUE]
  /\ last' = [op |-> "dndInit", t |-> t, a |-> 0, b |-> 0, calls |-> <<>>]
  /\ UNCHANGED <<cur, readOnly, timers, delayed, nextId, ops, early, pre, extracted>>

RunRestore ==
  /\ timers # <<>> /\ Head(timers).k = "restore"
  /\ LET tm == Head(timers)
         w == RestoreAll(World(blocks, cur, tg), InstanceSeq(tg), tm.recs)
     IN Commit(w, "restore", NoFk, cur, 0, Tail(timers), delayed)
  /\ UNCHANGED <<readOnly, nextId, ops, early, pre>>

RunHideShow ==
  /\ timers # <<>> /\ Head(timers).k = "hideshow"
  /\ LET tm == Head(timers)
         w == World(HideAndShowBlocks(blocks, tm.t, tg[tm.t].status), cur, tg)
     IN Commit(w, "hideshow", tm.t, 0, 0, Tail(timers), delayed)
  /\ UNCHANGED <<readOnly, nextId, ops, early, pre>>

RunDrop ==
  /\ timers # <<>> /\ Head(timers).k = "drop"
  /\ LET tm == Head(timers)
         w == DropTimer(World(blocks, cur, tg), tm.t, tm)
     IN Commit(w, "dropTimer", tm.t, tm.startBlock, tm.endBlock,
               Tail(timers) \o RestoreTimers(tg, w.recs), delayed)
  /\ UNCHANGED <<readOnly, nextId, ops, early, pre>>

RunKeyUp ==
  /\ timers # <<>> /\ Head(timers).k = "keyup"
  /\ LET w == NestBlockAll(World(blocks, cur, tg), InstanceSeq(tg), cur)
     IN Commit(w, "keyup", NoFk, cur, 0, Tail(timers), delayed)
  /\ UNCHANGED <<readOnly, nextId, ops, early, pre>>

\* the untag extractBlock deferred by 200 ms
RunUntag ==
  /\ timers = <<>> /\ delayed # <<>>
  /\ LET d == Head(delayed)
         w == RemoveAttributesFromNewBlock(World(blocks, cur, tg), d.t, d.destiny)
     IN Commit(w, "untag", d.t, d.destiny, 0, timers, Tail(delayed))
  /\ UNCHANGED <<readOnly, nextId, ops, early, pre>>

\* the callback render() of toggle t deferred
RunRender ==
  /\ timers # <<>> /\ Head(timers).k = "render"
  /\ LET tm == Head(timers)
         w == RenderTimer(World(blocks, cur, tg), tm.t, tm.startBlock)
     IN Commit(w, "render", tm.t, RootIndex(blocks, tm.t), tg[tm.t].items, Tail(timers), delayed)
  /\ UNCHANGED <<readOnly, nextId, ops, early, pre>>

\* the host saves the block of toggle t; last.b is the item count returned
Save(t) ==
  /\ timers = <<>> /\ ops < MaxOps
  /\ t \in DOMAIN tg /\ RootIndex(blocks, t) >= 0
  /\ LET d == SaveData(blocks, t, tg[t])
         w == World(blocks, cur, [tg EXCEPT ![t].items = d.items])
     IN Commit(w, "save", d.fk, RootIndex(blocks, t), d.items, timers, delayed)
  /\ User("save", t, RootIndex(blocks, t), 0)
  /\ UNCHANGED <<readOnly, nextId>>

Next ==
  \/ \E i \in 0..(Len(blocks) - 1) : Tab(i)
  \/ \E i \in 0..(Len(blocks) - 1) : ShiftTab(i)
  \/ \E t \in DOMAIN tg, d \in {0, 1} : MoveToggleClick(t, d)
  \/ \E t \in DOMAIN tg : DeleteClick(t)
  \/ \E t \in DOMAIN tg : IconClick(t)
  \/ \E t \in DOMAIN tg : EnterInTitle(t)
  \/ \E i \in 0..(Len(blocks) - 1) : EnterInMember(i)
  \/ \E t \in DOMAIN tg : BackspaceInTitle(t)
  \/ \E from \in 0..(Len(blocks) - 1), onto \in 0..(Len(blocks) - 1) : Drop(from, onto)
  \/ \E t \in DOMAIN tg : DndInit(t)
  \/ RunRestore
  \/ RunHideShow
  \/ RunDrop
  \/ RunKeyUp
  \/ RunUntag
  \/ \E t \in DOMAIN tg : Save(t)

Spec == Init /\ [][Next]_vars

\* the behaviours in which the user only opens and closes toggles and
\* presses Enter in their titles
NextToggle ==
  \/ \E t \in DOMAIN tg : IconClick(t)
  \/ \E t \in DOMAIN tg : EnterInTitle(t)
  \/ \E t \in DOMAIN tg : DndInit(t)
  \/ RunRestore
  \/ RunHideShow

SpecToggle == Init /\ [][NextToggle]_vars

(***************************************************************************)
(* Documents given by an explicit outline, for the scenarios: the same     *)
(* construction as InitBlocks and InitToggles over an outline of any       *)
(* length.                                                                 *)
(***************************************************************************)
DocBlocks(o, st) ==
  [i \in 1..Len(o) |->
     [id |-> i,
      name |-> IF o[i].toggle THEN "toggle" ELSE "paragraph",
      tid |-> IF o[i].toggle THEN i ELSE NoFk,
      fk |-> OutlineParent(o, i),
      item |-> OutlineParent(o, i) # NoFk,
      status |-> "none",
      hidden |-> OutlineHidden(o, st, i),
      hid |-> IF OutlineParent(o, i) # NoFk THEN i ELSE 0,
      owner |-> OutlineParent(o, i)]]

DocToggles(o, st) ==
  [t \in {i \in 1..Len(o) : o[i].toggle} |->
     [status |-> st[t],
      items |-> Cardinality({i \in 1..Len(o) : OutlineParent(o, i) = t}),
      itemsId |-> KidsFrom(DocBlocks(o, st), t, 1),
      ready |-> FALSE]]

InitDoc(o) ==
  /\ readOnly = FALSE
  /\ \E st \in [{i \in 1..Len(o) : o[i].toggle} -> {"open", "closed"}] :
       /\ blocks = DocBlocks(o, st)
       /\ tg = DocToggles(o, st)
  /\ cur = 0
  /\ timers = <<>>
  /\ delayed = <<>>
  /\ last = [op |-> "init", t |-> NoFk, a |-> 0, b |-> 0, calls |-> <<>>]
  /\ nextId = Len(o) + 1
  /\ ops = 0
  /\ early = FALSE
  /\ pre = [blocks |-> blocks, tg |-> tg, op |-> "init", t |-> NoFk, a |-> 0, b |-> 0]
  /\ extracted = {}

Plain == [toggle |-> FALSE, depth |-> 0]
Root == [toggle |-> TRUE, depth |-> 0]
Member == [toggle |-> FALSE, depth |-> 1]

\* scenario A: a toggle at position 2, its two plain members at 3 and 4, a
\* plain block at 5; any plain block or memberless toggle before them, and
\* possibly a plain block after them
OutlinesA ==
  {<<a, b, Root, Member, Member, Plain>> \o tl :
     a \in {Plain, Root}, b \in {Plain, Root}, tl \in {<<>>, <<Plain>>}}

InitA == \E o \in OutlinesA : InitDoc(o)

\* the behaviours in which the user only moves toggles
NextMove ==
  \/ \E t \in DOMAIN tg, d \in {0, 1} : MoveToggleClick(t, d)
  \/ \E t \in DOMAIN tg : DndInit(t)
  \/ RunRestore

SpecA == InitA /\ [][NextMove]_vars

SpecMove == Init /\ [][NextMove]_vars

\* documents one block longer and with one toggle more than those of Init,
\* so that a toggle can stand behind a toggle nested in a third one
DeepLen == NBlocks + 1
DeepToggles == MaxToggles + 1

OutlinesDeep ==
  {o \in [1..DeepLen -> [toggle : BOOLEAN, depth : 0..MaxToggles]] :
     /\ o[1].depth = 0
     /\ \A i \in 1..(DeepLen - 1) :
          /\ o[i + 1].depth <= o[i].depth + 1
          /\ o[i + 1].depth = o[i].depth + 1 => o[i].toggle
     /\ Cardinality({i \in 1..DeepLen : o[i].toggle}) = DeepToggles}

InitDeep == \E o \in OutlinesDeep : InitDoc(o)

SpecDeepMove == InitDeep /\ [][NextMove]_vars

\* the behaviours in which the user only drags blocks
NextDrop ==
  \/ \E from \in 0..(Len(blocks) - 1), onto \in 0..(Len(blocks) - 1) : Drop(from, onto)
  \/ \E t \in DOMAIN tg : DndInit(t)
  \/ RunRestore
  \/ RunDrop

NestedRoot == [toggle |-> TRUE, depth |-> 1]
Deep == [toggle |-> FALSE, depth |-> 2]

\* a toggle whose only member is a toggle with two plain members, possibly
\* with a plain block before it and a plain block after it
OutlinesNest ==
  {hd \o <<Root, NestedRoot, Deep, Deep>> \o tl :
     hd \in {<<>>, <<Plain>>}, tl \in {<<>>, <<Plain>>}}

InitNest == \E o \in OutlinesNest : InitDoc(o)

SpecNestDrop == InitNest /\ [][NextDrop]_vars

\* the document as the host has rendered it from saved data: no holder is
\* tagged yet, every toggle carries the item count of its data, and the
\* callbacks render() deferred are pending in document order; the block
\* current while the block at p was composed is the one at p - 1
LoadBlocks(kind) ==
  [i \in 1..NBlocks |->
     Block(i, IF kind[i] THEN "toggle" ELSE "paragraph", IF kind[i] THEN i ELSE NoFk)]

LoadToggles(kind, st, n) ==
  [t \in {i \in 1..NBlocks : kind[i]} |->
     [status |-> st[t], items |-> n[t], itemsId |-> <<>>, ready |-> FALSE]]

LoadTimers(kind) ==
  LET T == SelectSeq([k \in 1..NBlocks |-> k], LAMBDA k : kind[k])
  IN [k \in 1..Len(T) |-> [Timer("render", T[k]) EXCEPT !.startBlock = T[k] - 2]]

InitLoad ==
  /\ readOnly \in BOOLEAN
  /\ \E kind \in [1..NBlocks -> BOOLEAN] :
       LET T == {i \in 1..NBlocks : kind[i]}
       IN /\ T # {} /\ Cardinality(T) <= MaxToggles
          /\ \E st \in [T -> {"open", "closed"}], n \in [T -> 0..NBlocks] :
               /\ blocks = LoadBlocks(kind)
               /\ tg = LoadToggles(kind, st, n)
               /\ timers = LoadTimers(kind)
  /\ cur = IF readOnly THEN 0 - 1 ELSE NBlocks - 1
  /\ delayed = <<>>
  /\ last = [op |-> "init", t |-> NoFk, a |-> 0, b |-> 0, calls |-> <<>>]
  /\ nextId = NBlocks + 1
  /\ ops = 0
  /\ early = FALSE
  /\ pre = [blocks |-> blocks, tg |-> tg, op |-> "init", t |-> NoFk, a |-> 0, b |-> 0]
  /\ extracted = {}

NextLoad ==
  \/ RunRender
  \/ \E t \in DOMAIN tg : DndInit(t)

SpecLoad == InitLoad /\ [][NextLoad]_vars

\* the host saves the document, save() of every toggle, and renders the
\* same block sequence again from the saved data: new instances with the
\* saved status and item count, no holder tagged, every render() callback
\* pending
SaveAndLoad ==
  /\ timers = <<>> /\ delayed = <<>> /\ ops < MaxOps
  /\ Len(blocks) = NBlocks /\ DOMAIN tg # {}
  /\ \A t \in DOMAIN tg : RootIndex(blocks, t) = t - 1
  /\ LET kind == [i \in 1..NBlocks |-> blocks[i].tid # NoFk]
         st == [t \in DOMAIN tg |-> SaveData(blocks, t, tg[t]).status]
         n == [t \in DOMAIN tg |-> SaveData(blocks, t, tg[t]).items]
         w == World(LoadBlocks(kind), IF readOnly THEN 0 - 1 ELSE NBlocks - 1,
                    LoadToggles(kind, st, n))
     IN Commit(w, "load", NoFk, 0, 0, LoadTimers(kind), delayed)
  /\ User("load", NoFk, 0, 0)
  /\ UNCHANGED <<readOnly, nextId>>

NextRound ==
  \/ SaveAndLoad
  \/ RunRender
  \/ \E t \in DOMAIN tg : DndInit(t)

SpecRound == Init /\ [][NextRound]_vars

\* the behaviours in which blocks are nested and toggles are saved
NextSave ==
  \/ \E i \in 0..(NBlocks - 1) : Tab(i)
  \/ \E t \in DOMAIN tg : Save(t)
  \/ \E t \in DOMAIN tg : DndInit(t)

SpecSave == Init /\ [][NextSave]_vars

(***************************************************************************)
(* Reference notions the properties are stated with: they follow the       *)
(* parent-links alone, whatever status markers the holders carry.          *)
(***************************************************************************)
RECURSIVE SubtreeFuel(_, _, _)
SubtreeFuel(bs, fk, fuel) ==
  IF fk = NoFk \/ fuel = 0 THEN {}
  ELSE Children(bs, fk)
       \cup UNION {SubtreeFuel(bs, bs[k].tid, fuel - 1) : k \in Children(bs, fk)}

\* the positions (1-based) of the full descendant subtree of the toggle fk
Subtree(bs, fk) == SubtreeFuel(bs, fk, Len(bs) + 1)

Roots(bs) == {k \in 1..Len(bs) : bs[k].tid # NoFk}

ContiguousAt(bs, k) ==
  Subtree(bs, bs[k].tid) = (k + 1)..(k + Cardinality(Subtree(bs, bs[k].tid)))

Contiguous(bs) == \A k \in Roots(bs) : ContiguousAt(bs, k)

\* no deferred callback is pending: the end of a user action
Quiescent == timers = <<>> /\ delayed = <<>>

(***************************************************************************)
(* C1: contiguity invariant.  At the end of every user action, the full    *)
(* descendant subtree of every toggle root at position p occupies exactly  *)
(* the positions p+1 .. p+countDescendants.                                *)
(***************************************************************************)
C1_Contiguity == (Quiescent /\ ~early) => Contiguous(blocks)

(***************************************************************************)
(* C2: getDecendentsNumber of a toggle root equals the size of its full    *)
(* transitive descendant subtree, whether or not the root of a nested      *)
(* toggle already carries a status marker.                                 *)
(***************************************************************************)
C2_CountsSubtree ==
  \A k \in Roots(blocks) :
    GetDecendentsNumber(blocks, blocks[k].tid) = Cardinality(Subtree(blocks, blocks[k].tid))

\* the position (1-based) of the root block of toggle fk, 0 when there is none
RootPos(bs, fk) == RootIndex(bs, fk) + 1

\* some toggle strictly below R on the parent-links from the block at k up
\* to R has the stored status Closed
RECURSIVE ClosedBelow(_, _, _, _, _)
ClosedBelow(bs, t, k, R, fuel) ==
  IF fuel = 0 \/ k = 0 \/ bs[k].fk = R \/ bs[k].fk = NoFk THEN FALSE
  ELSE \/ (bs[k].fk \in DOMAIN t /\ t[bs[k].fk].status = "closed")
       \/ ClosedBelow(bs, t, RootPos(bs, bs[k].fk), R, fuel - 1)

(***************************************************************************)
(* C3: after hideAndShowBlocks ran for a toggle R, every block of R's      *)
(* subtree is hidden when R is Closed; when R is Open its direct members   *)
(* are visible and the members of a nested toggle are hidden exactly when  *)
(* a toggle between them and R has the stored status Closed.               *)
(***************************************************************************)
C3_Propagation ==
  last.op = "hideshow" =>
    \A k \in Subtree(blocks, last.t) :
      blocks[k].hidden = (tg[last.t].status = "closed"
                          \/ ClosedBelow(blocks, tg, k, last.t, Len(blocks) + 1))

\* the status attribute on the holder of the root of toggle T
StatusAttr(bs, T) ==
  IF RootPos(bs, T) = 0 THEN "none" ELSE bs[RootPos(bs, T)].status

\* the toggles whose root is in the subtree of R
Nested(bs, R) == {bs[k].tid : k \in {j \in Subtree(bs, R) : bs[j].tid # NoFk}}

(***************************************************************************)
(* C4: closing or reopening a toggle R (the icon click, its deferred       *)
(* hideAndShowBlocks, Enter in the title of a closed toggle) never changes *)
(* the stored status of a toggle nested inside R: neither the status of    *)
(* its data nor the status attribute of its holder.                        *)
(***************************************************************************)
C4_NestedStatusKept ==
  [][last'.op \in {"click", "hideshow", "enter"} =>
       \A T \in Nested(blocks, last'.t) :
         /\ tg'[T].status = tg[T].status
         /\ StatusAttr(blocks', T) = StatusAttr(blocks, T)]_vars

\* a toggle was reopened and one nested in it is still Closed
C4_Witness ==
  /\ last.op = "hideshow"
  /\ tg[last.t].status = "open"
  /\ pre.tg[last.t].status = "closed"
  /\ \E T \in Nested(blocks, last.t) :
       tg[T].status = "closed" /\ StatusAttr(blocks, T) = "closed"

\* some existing toggle on the parent-links above the block at k is Closed
RECURSIVE ClosedAncestor(_, _, _, _)
ClosedAncestor(bs, t, k, fuel) ==
  IF fuel = 0 \/ bs[k].fk = NoFk \/ RootPos(bs, bs[k].fk) = 0 THEN FALSE
  ELSE \/ t[bs[k].fk].status = "closed"
       \/ ClosedAncestor(bs, t, RootPos(bs, bs[k].fk), fuel - 1)

(***************************************************************************)
(* C5: status propagation invariant.  At the end of every user action a    *)
(* block with a Closed ancestor toggle is hidden and a block whose         *)
(* ancestors are all Open is visible.                                      *)
(***************************************************************************)
C5_StatusPropagation ==
  (Quiescent /\ ~early) =>
    \A k \in 1..Len(blocks) :
      blocks[k].hidden = ClosedAncestor(blocks, tg, k, Len(blocks) + 1)

Ids(bs) == [k \in 1..Len(bs) |-> bs[k].id]
Fks(bs) == [k \in 1..Len(bs) |-> bs[k].fk]
Tags(bs) == [k \in 1..Len(bs) |-> <<bs[k].id, bs[k].fk, bs[k].item>>]

\* the last user action was a drop of the root of an initialised toggle on
\* a block of the toggle's own subtree, and its deferred handlers have run
DroppedOnOwnSubtree ==
  /\ pre.op = "drop" /\ pre.t # NoFk /\ pre.tg[pre.t].ready
  /\ (pre.b + 1) \in Subtree(pre.blocks, pre.t)
  /\ timers = <<>> /\ last.op \in {"dropTimer", "restore"}

(***************************************************************************)
(* C6: no self-nesting.  When a toggle is dropped on a block of its own    *)
(* descendant subtree, then after the drop handler completes the sequence  *)
(* order and every block's parent-link are as before the drag started.     *)
(***************************************************************************)
C6_DropOnOwnSubtree ==
  DroppedOnOwnSubtree => Ids(blocks) = Ids(pre.blocks) /\ Fks(blocks) = Fks(pre.blocks)

\* Tab is about to be released in the block at i, which carries already the
\* parent-link every instance's nestBlock will tag it with
RetagsMember(i) ==
  /\ timers = <<>> /\ ~readOnly /\ DOMAIN tg # {}
  /\ ValidIndex(blocks, i) /\ i - 1 >= 0
  /\ blocks[i + 1].item
  /\ blocks[i + 1].fk # NoFk
  /\ blocks[i + 1].fk = GetToggleId(blocks, i - 1)

(***************************************************************************)
(* C7: idempotent tagging.  Calling setAttributesToNewBlock(pos, link) on  *)
(* a block that already carries the parent-link link leaves the whole      *)
(* state unchanged: the block's tag and member identity, every other       *)
(* block and the caller's itemsId.                                         *)
(***************************************************************************)
C7_IdempotentTagging ==
  [][(last'.op = "nest" /\ RetagsMember(last'.a)) =>
       blocks' = blocks /\ tg' = tg]_vars

\* the deferred drop handler at the head of the timers does nothing but call
\* removeAttributesFromNewBlock on the dragged block, which carries no tag
UntagsUntagged ==
  /\ timers # <<>> /\ Head(timers).k = "drop"
  /\ ~Head(timers).isTargetAToggle
  /\ LET i == GetIndex(blocks, Head(timers).dragged)
     IN /\ i >= 0
        /\ blocks[i + 1].fk = NoFk /\ ~blocks[i + 1].item
        /\ ~(Head(timers).name = "toggle" /\ blocks[i + 1].tid = Head(timers).t)

(***************************************************************************)
(* C8: untagging an untagged block is a no-op.  removeAttributesFromNew-   *)
(* Block on a block that carries no tag changes no block's tag and leaves  *)
(* the calling instance's itemsId as it was, whatever it contains.         *)
(***************************************************************************)
C8_UntagUntagged ==
  [][(UntagsUntagged /\ last'.op = "dropTimer") =>
       /\ Tags(blocks') = Tags(blocks)
       /\ tg'[Head(timers).t].itemsId = tg[Head(timers).t].itemsId]_vars

\* the deferred untag of extractBlock is due for a tagged block whose
\* identity the instance holds in itemsId
UntagsMember ==
  /\ timers = <<>> /\ delayed # <<>>
  /\ ValidIndex(blocks, Head(delayed).destiny)
  /\ blocks[Head(delayed).destiny + 1].fk # NoFk
  /\ Includes(tg[Head(delayed).t].itemsId, blocks[Head(delayed).destiny + 1].id)

\* the sequence s without the entries equal to x
Without(s, x) == SelectSeq(s, LAMBDA e : e # x)

(***************************************************************************)
(* C9: after removeAttributesFromNewBlock on a tagged block whose identity *)
(* is in itemsId, the identity is no longer in itemsId and the other       *)
(* entries of itemsId are unchanged.                                       *)
(***************************************************************************)
C9_UntagForgets ==
  [][(UntagsMember /\ last'.op = "untag") =>
       tg'[Head(delayed).t].itemsId =
         Without(tg[Head(delayed).t].itemsId, blocks[Head(delayed).destiny + 1].id)]_vars

\* the last handler was moveToggle at a boundary of the sequence: up with the
\* root at position 0, or down with the last descendant at the last position
MovedAtBoundary ==
  /\ last.op = "moveToggle" /\ pre.op = "moveToggle" /\ pre.a >= 0
  /\ \/ pre.b = 1 /\ pre.a = 0
     \/ /\ pre.b = 0
        /\ pre.a + Cardinality(Subtree(pre.blocks, pre.t)) = Len(pre.blocks) - 1

(***************************************************************************)
(* C10: move at a sequence boundary is a no-op.  moveToggle up on a toggle *)
(* whose root is at position 0, or down on a toggle whose last descendant  *)
(* is the last block, leaves the order and every tag unchanged and issues  *)
(* no host move beyond the one restoring the root.                         *)
(***************************************************************************)
C10_BoundaryNoop ==
  (MovedAtBoundary /\ ~early) =>
    /\ Tags(blocks) = Tags(pre.blocks)
    /\ Len(last.calls) <= 1

\* the document the last user action started from is that of scenario A and
\* the action was move down on the toggle at position 2
MovedDownInScenarioA ==
  /\ last.op = "moveToggle" /\ pre.op = "moveToggle" /\ pre.b = 0 /\ pre.a = 2
  /\ Len(pre.blocks) >= 6
  /\ Children(pre.blocks, pre.t) = {4, 5}
  /\ \A k \in {4, 5, 6} : pre.blocks[k].tid = NoFk
  /\ pre.blocks[3].fk = NoFk /\ pre.blocks[6].fk = NoFk

\* the position (0-based) of the block that was at position i before the
\* last user action
NowAt(i) == GetIndex(blocks, pre.blocks[i + 1].id)

(***************************************************************************)
(* C11 as stated: scenario A.  With toggle R at position 2, its two plain  *)
(* members at 3 and 4 and a plain block at 5, moving R down yields R at    *)
(* position 5, its members at 6 and 7 and the former neighbour at 2.       *)
(***************************************************************************)
C11_ScenarioA ==
  MovedDownInScenarioA =>
    NowAt(2) = 5 /\ NowAt(3) = 6 /\ NowAt(4) = 7 /\ NowAt(5) = 2

(***************************************************************************)
(* C11 amended: in scenario A moving R down yields the former neighbour at *)
(* position 2, R at position 3 and its two members at 4 and 5, every other *)
(* block where it was and every tag as before.                             *)
(***************************************************************************)
C11_ScenarioASwap ==
  MovedDownInScenarioA =>
    /\ NowAt(5) = 2 /\ NowAt(2) = 3 /\ NowAt(3) = 4 /\ NowAt(4) = 5
    /\ \A i \in {0, 1} \cup 6..(Len(pre.blocks) - 1) : NowAt(i) = i
    /\ Len(blocks) = Len(pre.blocks)
    /\ \A i \in 0..(Len(pre.blocks) - 1) :
         GetBlockByIndex(blocks, NowAt(i)).fk = pre.blocks[i + 1].fk

C11_Witness ==
  /\ MovedDownInScenarioA
  /\ blocks[3].id = pre.blocks[6].id
  /\ blocks[4].tid = pre.t

\* bs is a permutation of cs in which every block has the parent-link, the
\* status attribute and the hidden flag it has in cs
SameBlocksMoved(bs, cs) ==
  /\ Len(bs) = Len(cs)
  /\ \A k \in 1..Len(cs) :
       /\ GetIndex(bs, cs[k].id) >= 0
       /\ LET b == bs[GetIndex(bs, cs[k].id) + 1]
          IN /\ b.fk = cs[k].fk /\ b.item = cs[k].item
             /\ b.status = cs[k].status /\ b.hidden = cs[k].hidden
             /\ b.tid = cs[k].tid

RECURSIVE IdsAt(_, _, _)
IdsAt(bs, S, k) ==
  IF k > Len(bs) THEN <<>>
  ELSE IF k \in S THEN <<bs[k].id>> \o IdsAt(bs, S, k + 1)
  ELSE IdsAt(bs, S, k + 1)

\* the first user action was Shift+Tab in a member M of an existing toggle,
\* every instance was initialised, and the deferred untag has run
Extracted ==
  /\ pre.op = "extract" /\ ops = 1 /\ ~early
  /\ last.op = "untag" /\ timers = <<>> /\ delayed = <<>>
  /\ pre.blocks[pre.a + 1].item
  /\ RootIndex(pre.blocks, pre.blocks[pre.a + 1].fk) >= 0

(***************************************************************************)
(* C13: extract.  For a member M of toggle R (root at rootPos) with        *)
(* countDescendants(R) = n, extractBlock moves M to position rootPos + n   *)
(* when n > 1 and moves nothing when n = 1; afterwards M carries no tag,   *)
(* countDescendants(R) is n - 1 and R's remaining descendants occupy       *)
(* rootPos+1 .. rootPos+n-1 in their previous relative order.              *)
(***************************************************************************)
C13_Extract ==
  Extracted =>
    LET M == pre.blocks[pre.a + 1]
        R == M.fk
        rootPos == RootIndex(pre.blocks, R)
        n == Cardinality(Subtree(pre.blocks, R))
        now == GetIndex(blocks, M.id)
    IN /\ now = IF n > 1 THEN rootPos + n ELSE pre.a
       /\ blocks[now + 1].fk = NoFk /\ ~blocks[now + 1].item
       /\ RootIndex(blocks, R) = rootPos
       /\ GetDecendentsNumber(blocks, R) = n - 1
       /\ Subtree(blocks, R) = (rootPos + 2)..(rootPos + n)
       /\ IdsAt(blocks, Subtree(blocks, R), 1)
            = IdsAt(pre.blocks, Subtree(pre.blocks, R) \ {pre.a + 1}, 1)

\* the delete of a whole toggle was confirmed, every instance initialised
DeletedWhole == last.op = "delete" /\ pre.op = "delete" /\ ~early

(***************************************************************************)
(* C14: delete whole toggle.  For a toggle R with d = countDescendants(R)  *)
(* descendants (members of nested toggles included), confirming the        *)
(* delete performs d + 1 deletions at R's root position: afterwards R and  *)
(* every block of R's subtree are gone, no block carries the rootId of a   *)
(* deleted toggle, and no block outside R's subtree is removed.            *)
(***************************************************************************)
C14_DeleteWhole ==
  DeletedWhole =>
    LET gone == {pre.a + 1} \cup Subtree(pre.blocks, pre.t)
        keep == IdsAt(pre.blocks, (1..Len(pre.blocks)) \ gone, 1)
        dead == {pre.blocks[k].tid : k \in gone} \ {NoFk}
    IN /\ keep # <<>> => Ids(blocks) = keep
       /\ keep = <<>> => Len(blocks) = 1 /\ GetIndex(pre.blocks, blocks[1].id) < 0
       /\ \A k \in 1..Len(blocks) : blocks[k].fk \notin dead

\* the first user action was a drop of a block on a block outside the
\* dragged block's own subtree, every instance was initialised, and the
\* deferred drop handlers have run
Dropped ==
  /\ pre.op = "drop" /\ ops = 1 /\ ~early
  /\ timers = <<>> /\ last.op \in {"dropTimer", "restore"}
  /\ (pre.b + 1) \notin Subtree(pre.blocks, pre.blocks[pre.a + 1].tid)

(***************************************************************************)
(* C15: drag-and-drop retagging.  After any dragged block (a toggle root,  *)
(* a tagged member or a plain block) is dropped onto a toggle root or onto *)
(* a tagged member, the dragged block carries the target toggle's          *)
(* parent-link; after it is dropped onto a block that is neither a toggle  *)
(* root nor tagged, the dragged block carries no tag.                      *)
(***************************************************************************)
C15_DropRetags ==
  Dropped =>
    LET target == pre.blocks[pre.b + 1]
        now == blocks[GetIndex(blocks, pre.blocks[pre.a + 1].id) + 1]
    IN IF target.tid # NoFk \/ target.fk # NoFk
       THEN now.fk # NoFk /\ now.fk \in {target.fk, target.tid}
       ELSE now.fk = NoFk /\ ~now.item

(***************************************************************************)
(* C16: toggle state machine.  Each click on the icon of toggle R flips    *)
(* R's status between Open and Closed, and afterwards the status marker    *)
(* stored on R's own root block equals R's new status, whichever block is  *)
(* the host's current block when the click is handled.                     *)
(***************************************************************************)
C16_ClickFlipsAndMarks ==
  (last.op = "click" /\ pre.op = "click") =>
    /\ tg[pre.t].status # pre.tg[pre.t].status
    /\ tg[pre.t].status \in {"open", "closed"}
    /\ StatusAttr(blocks, pre.t) = tg[pre.t].status

\* the positions (1-based) the re-scan of toggle t is to tag in bs: the
\* blocks after the root, up to n of them, before the first block that is
\* tagged or is a toggle root
RECURSIVE ScanFrom(_, _, _)
ScanFrom(bs, k, n) ==
  IF n = 0 \/ k > Len(bs) \/ bs[k].fk # NoFk \/ bs[k].tid # NoFk THEN {}
  ELSE {k} \cup ScanFrom(bs, k + 1, n - 1)

(***************************************************************************)
(* C17: load-time membership reconstruction.  When a toggle with declared  *)
(* item count N is rendered with its root at position p, the re-scan tags  *)
(* the blocks at p+1, p+2, ... in order with the toggle's rootId and stops *)
(* before the first block that is already tagged by a toggle or is a       *)
(* toggle root, tagging at most N blocks and no block beyond p+N.          *)
(***************************************************************************)
C17_RenderScan ==
  [][last'.op = "render" =>
       LET t == last'.t
           scan == ScanFrom(blocks, RootPos(blocks, t) + 1, tg[t].items)
       IN \A k \in 1..Len(blocks) :
            blocks'[k].fk = IF k \in scan THEN t ELSE blocks[k].fk]_vars

Desc(bs, i) == Cardinality(Subtree(bs, bs[i + 1].tid))

\* toggle R, its root at p = pre.a with its d descendants behind it, was
\* moved down while the block N at p + d + 1 existed with its k descendants
\* behind it
MovedDownPastNeighbour ==
  /\ last.op = "moveToggle" /\ pre.op = "moveToggle" /\ pre.b = 0
  /\ ContiguousAt(pre.blocks, pre.a + 1)
  /\ pre.a + Desc(pre.blocks, pre.a) + 1 < Len(pre.blocks)
  /\ LET n == pre.a + Desc(pre.blocks, pre.a) + 1
     IN pre.blocks[n + 1].tid # NoFk => ContiguousAt(pre.blocks, n + 1)

(***************************************************************************)
(* C20: move down past a neighbour.  If toggle R has its root at p and d   *)
(* descendants, and the block N at position p+d+1 exists and has k         *)
(* descendants (k = 0 for a plain block), then after moving R down N and   *)
(* its k descendants occupy p .. p+k in their original order and R and its *)
(* d descendants occupy p+k+1 .. p+k+1+d in their original order.          *)
(***************************************************************************)
C20_MoveDownPast ==
  MovedDownPastNeighbour =>
    LET p == pre.a
        d == Desc(pre.blocks, p)
        k == Desc(pre.blocks, p + d + 1)
    IN /\ Len(blocks) = Len(pre.blocks)
       /\ SubSeq(Ids(blocks), p + 1, p + k + 1)
            = SubSeq(Ids(pre.blocks), p + d + 2, p + d + k + 2)
       /\ SubSeq(Ids(blocks), p + k + 2, p + k + d + 2)
            = SubSeq(Ids(pre.blocks), p + 1, p + d + 1)

\* the position (1-based) of the root of the outermost toggle that contains
\* the block at k and is tagged rfk like R; 0 when there is none
RECURSIVE SiblingAbove(_, _, _, _)
SiblingAbove(bs, k, rfk, fuel) ==
  LET r == RootPos(bs, bs[k].fk)
  IN IF fuel = 0 \/ bs[k].fk = NoFk \/ r = 0 THEN 0
     ELSE IF bs[r].fk = rfk THEN r
     ELSE SiblingAbove(bs, r, rfk, fuel - 1)

\* toggle R was moved up in a contiguous forest while the block before its
\* root was a tagged member, not a root, whose parent-link differs from R's
MovedUpPastSibling ==
  /\ last.op = "moveToggle" /\ pre.op = "moveToggle" /\ pre.b = 1 /\ ~early
  /\ Contiguous(pre.blocks)
  /\ pre.a >= 1
  /\ pre.blocks[pre.a].fk # NoFk /\ pre.blocks[pre.a].tid = NoFk
  /\ pre.blocks[pre.a].fk # pre.blocks[pre.a + 1].fk
  /\ SiblingAbove(pre.blocks, pre.a, pre.blocks[pre.a + 1].fk, Len(pre.blocks)) > 0

(***************************************************************************)
(* C21: move up past a sibling subtree.  If the block immediately before   *)
(* toggle R's root is a tagged member whose parent-link differs from R's   *)
(* own, then after moving R up R's whole subtree sits immediately before   *)
(* the root of R's preceding sibling S, S's whole subtree follows          *)
(* immediately after R's subtree in its original order, and no other block *)
(* changes position.                                                       *)
(***************************************************************************)
C21_MoveUpPastSibling ==
  MovedUpPastSibling =>
    LET r == pre.a + 1
        d == Desc(pre.blocks, pre.a)
        s == SiblingAbove(pre.blocks, pre.a, pre.blocks[r].fk, Len(pre.blocks))
        old == Ids(pre.blocks)
    IN Ids(blocks) = SubSeq(old, 1, s - 1) \o SubSeq(old, r, r + d)
                       \o SubSeq(old, s, r - 1) \o SubSeq(old, r + d + 1, Len(old))

\* in a contiguous forest the first user action dropped the root of toggle
\* R on a block outside R's subtree, every instance was initialised, and the
\* deferred drop handlers have run
DroppedToggle ==
  /\ Dropped /\ pre.t # NoFk
  /\ Contiguous(pre.blocks)

(***************************************************************************)
(* C22: drag-and-drop relocation of a subtree.  After a toggle R is        *)
(* dropped on a valid target (not in its own subtree), in either           *)
(* direction, all of R's descendants, members of nested toggles included,  *)
(* occupy the positions immediately following R's new position in the      *)
(* relative order they had before the drag.                                *)
(***************************************************************************)
C22_DropMovesSubtree ==
  DroppedToggle =>
    LET r == RootPos(blocks, pre.t)
        sub == IdsAt(pre.blocks, Subtree(pre.blocks, pre.t), 1)
    IN /\ r + Len(sub) <= Len(blocks)
       /\ SubSeq(Ids(blocks), r + 1, r + Len(sub)) = sub

(***************************************************************************)
(* C23: nest.  nestBlock(i) with i >= 1 tags the block at i with the       *)
(* rootId of the block at i-1 when that block is a toggle root (also when  *)
(* that root is itself a member of another toggle), with the parent-link   *)
(* of the block at i-1 when that block is a tagged non-root member, and    *)
(* changes nothing when the block at i-1 is neither or when i = 0; no      *)
(* block other than the one at i changes.                                  *)
(***************************************************************************)
C23_Nest ==
  (last.op = "nest" /\ pre.op = "nest") =>
    LET i == pre.a + 1
        link == IF i = 1 THEN NoFk
                ELSE IF pre.blocks[i - 1].tid # NoFk THEN pre.blocks[i - 1].tid
                ELSE pre.blocks[i - 1].fk
    IN /\ Ids(blocks) = Ids(pre.blocks)
       /\ \A k \in 1..Len(blocks) :
            blocks[k].fk = IF k = i /\ link # NoFk THEN link ELSE pre.blocks[k].fk

(***************************************************************************)
(* C24: deferred untag after extract.  The untag step extractBlock         *)
(* schedules removes the tag of the extracted block itself and of no other *)
(* block, even when another structural operation or host mutation changes  *)
(* block positions between the extract and the deferred step.              *)
(***************************************************************************)
C24_UntagExtracted ==
  [][last'.op = "untag" =>
       /\ Ids(blocks') = Ids(blocks)
       /\ \A k \in 1..Len(blocks) :
            IF blocks[k].id = Head(delayed).block
            THEN blocks'[k].fk = NoFk /\ ~blocks'[k].item
            ELSE blocks'[k].fk = blocks[k].fk /\ blocks'[k].item = blocks[k].item]_vars

\* the values isChild is called with: the rootIds of the document and the
\* empty value
Keys(bs) == {bs[k].tid : k \in 1..Len(bs)} \cup {NoFk}

(***************************************************************************)
(* C25: isChild(R, fk) returns true exactly when fk is non-empty and is    *)
(* R's rootId or the rootId of a toggle nested in R at any depth, and      *)
(* false when either argument is empty; in particular isChild(R, R) is     *)
(* true.                                                                   *)
(***************************************************************************)
C25_IsChild ==
  \A R \in Keys(blocks), fk \in Keys(blocks) :
    IsChildResult(blocks, R, fk)
      = IF R # NoFk /\ fk # NoFk /\ (fk = R \/ fk \in Nested(blocks, R))
        THEN "true" ELSE "false"

(***************************************************************************)
(* C30: the parent-link graph stays acyclic.  In every reachable state no  *)
(* toggle root is tagged with its own rootId or with the rootId of a       *)
(* toggle in its own descendant subtree.                                   *)
(***************************************************************************)
C30_Acyclic ==
  \A k \in Roots(blocks) :
    /\ blocks[k].fk # blocks[k].tid
    /\ blocks[k].fk \notin Nested(blocks, blocks[k].tid)

\* the positions (1-based) hideAndShowBlocks hides when toggle R is closed
HiddenByClosing(bs, R) ==
  LET shown == [k \in 1..Len(bs) |-> [bs[k] EXCEPT !.hidden = FALSE]]
  IN {k \in 1..Len(bs) : HideAndShowBlocks(shown, R, "closed")[k].hidden}

(***************************************************************************)
(* C26: the three subtree traversals agree.  In every reachable state, for *)
(* every toggle R the blocks hidden by closing R, the blocks marked by     *)
(* highlightToggleItems(R) and the blocks counted by getDecendentsNumber(R)*)
(* are R's full descendant subtree, also when the root of a nested toggle  *)
(* has no status marker yet.                                               *)
(***************************************************************************)
C26_TraversalsAgree ==
  \A k \in Roots(blocks) :
    LET R == blocks[k].tid
    IN /\ HiddenByClosing(blocks, R) = Subtree(blocks, R)
       /\ HighlightToggleItems(blocks, R) = Subtree(blocks, R)
       /\ GetDecendentsNumber(blocks, R) = Cardinality(Subtree(blocks, R))


\* the behaviours in which the user only nests blocks with Tab and presses
\* Enter in members and titles
NextEnter ==
  \/ \E i \in 0..(Len(blocks) - 1) : Tab(i)
  \/ \E i \in 0..(Len(blocks) - 1) : EnterInMember(i)
  \/ \E t \in DOMAIN tg : EnterInTitle(t)
  \/ \E t \in DOMAIN tg : DndInit(t)
  \/ RunRestore

SpecEnter == Init /\ [][NextEnter]_vars

\* C27: the block made by Enter inside a member of toggle X, or inside X's
\* title, is tagged with X's rootId, whichever instance attached its key
\* handler to the member last
EnteredInMember ==
  /\ last.op = "enterMember"
  /\ pre.blocks[last.a + 1].fk # NoFk

C27_EnterTagsWithToggle ==
  /\ EnteredInMember => blocks[last.a + 2].fk = pre.blocks[last.a + 1].fk
  /\ last.op = "enter" => blocks[last.a + 2].fk = last.t


\* C28: a block that extractBlock has untagged stays untagged when a later
\* change notification runs restoreItemAttributes with it as the current
\* block
ExtractedCurrent ==
  /\ last.op = "restore"
  /\ ValidIndex(blocks, cur)
  /\ blocks[cur + 1].id \in extracted

Dissolved ==
  /\ last.op = "removeToggle"
  /\ Contiguous(pre.blocks)

C29_Dissolve ==
  Dissolved =>
    /\ \A k \in 1..Len(blocks) : blocks[k].fk # last.t
    /\ Len(blocks) = Len(pre.blocks)
    /\ \A k \in (1..Len(blocks)) \ {last.a + 1} :
         /\ blocks[k].id = pre.blocks[k].id
         /\ pre.blocks[k].fk # last.t => blocks[k].fk = pre.blocks[k].fk
    /\ blocks[last.a + 1].name = "paragraph"
    /\ blocks[last.a + 1].tid = NoFk /\ blocks[last.a + 1].fk = NoFk
    /\ \A k \in 1..Len(pre.blocks) : pre.blocks[k].id # blocks[last.a + 1].id


\* C31: when a forest that satisfies the contiguity invariant is saved and
\* the same block sequence is rendered again from the saved data, every
\* block has the parent-link it had before saving
Reloaded ==
  /\ pre.op = "load"
  /\ timers = <<>>
  /\ Contiguous(pre.blocks)

C31_RoundTrip ==
  Reloaded => \A k \in 1..Len(blocks) : blocks[k].fk = pre.blocks[k].fk


\* C32: when the block immediately before the root of toggle R is itself a
\* toggle root, moveToggle with direction up puts R's root back at its
\* initial position and leaves the order of the sequence and every tag as
\* they were
MovedUpBelowRoot ==
  /\ last.op = "moveToggle" /\ last.b = 1
  /\ last.a >= 1
  /\ pre.blocks[last.a].tid # NoFk

=============================================================================
